---- MODULE Spec2Model ----
(***************************************************************************)
(* Verification model of zimbra-qbo-billing: the invoice generator         *)
(* (src/qbo/invoice.py), the QuickBooks client and its retry wrapper       *)
(* (src/qbo/client.py, src/qbo/errors.py), the highwater aggregation       *)
(* (src/zimbra/calculator.py, src/database/queries.py) and the change      *)
(* detector (src/reconciliation/detector.py).                              *)
(***************************************************************************)
EXTENDS Integers, Sequences, FiniteSets, TLC

VARIABLES
    \* ---- local store (src/database/models.py), invoice side ----
    domains,            \* Domain rows: id -> [domain_name, customer_id, active]
    monthly_highwater,  \* MonthlyHighwater rows of the billing period
    cos_mappings,       \* CoSMapping rows: id -> row
    invoice_history,    \* InvoiceHistory rows
    \* ---- external billing system (QuickBooks) ----
    qbo_invoices,       \* sequence of saved invoices, Id = position
    \* ---- one run per worker: its session and its position ----
    pc,                 \* worker -> "idle" | "loop" | "create" | "record"
    mode,               \* worker -> "single" | "batch"
    queue,              \* worker -> customers still to process in this run
    session_ok,         \* worker -> FALSE once a flush failed and no rollback was issued
    cur,                \* worker -> the invocation in progress
    results,            \* worker -> {'success': [...], 'failed': [...]} of the batch
    log,                \* worker -> completed invocations of generate_invoice_for_customer
    runs,               \* number of runs started so far
    failures,           \* number of failures the external API has answered with so far
    db_errors,          \* number of store errors on a history write so far
    \* ---- local store, usage and mapping side ----
    exclusions,         \* Exclusion rows: [exclusion_type, pattern, active]
    usage_data,         \* UsageData rows
    cos_discovery,      \* CoSDiscovery rows: cos_name -> domain_count
    domain_history,     \* DomainHistory rows, in the order written
    \* ---- report processing (main.process_reports) ----
    parsed_reports,     \* the parsed records of the period's reports
    highwater_data,     \* what calculate_monthly_highwater returned
    hw_pc,              \* "collect" | "calculated" | "stored" | "done"
    hw_runs,            \* runs of calculate_and_store_highwater so far (its clock)
    hw_log,             \* the highwater rows left by each run, without calculated_at
    \* ---- change detector ----
    new_domains,        \* last find_new_domains call: its argument and its result
    new_cos,            \* last find_new_cos call: its argument and its result
    mappings_made,      \* mapping decisions taken so far
    \* ---- reconciliation (detect_all_changes and the mapping manager) ----
    changes,            \* last detect_all_changes call: its arguments, its bundle and
                        \* the new CoS the reconciliation has gone through since
    change_log,         \* ChangeLog rows, in the order written
    map_result,         \* how the last mapping call ended, and what it did
    \* ---- one call of an operation under retry_with_backoff ----
    r_pc,               \* "idle" | "call" | "sleep" | "returned" | "raised"
    r_attempt,          \* the wrapper's loop variable
    r_calls,            \* invocations of the wrapped operation
    r_errors,           \* the failed attempts, in order
    r_delay,            \* the delay computed for the sleep about to happen
    r_sleeps,           \* the delays slept, in order (tenths of a second)
    r_raised,           \* the error raised to the caller
    \* ---- text processing (query escaping, report parsing) ----
    text_call           \* the last call of a text function: its input and its result

storeVars == <<domains, monthly_highwater, cos_mappings, exclusions, usage_data,
               cos_discovery, domain_history>>
invoiceVars == <<invoice_history, qbo_invoices, pc, mode, queue, session_ok, cur,
                 results, log, runs, failures, db_errors>>
hwVars == <<parsed_reports, highwater_data, hw_pc, hw_runs, hw_log>>
recVars == <<changes, change_log, map_result>>
detVars == <<new_domains, new_cos, mappings_made, recVars>>
retryVars == <<r_pc, r_attempt, r_calls, r_errors, r_delay, r_sleeps, r_raised>>

vars == <<storeVars, invoiceVars, hwVars, detVars, retryVars, text_call>>

\* what the invoice generator never writes
invoiceOther == <<exclusions, usage_data, cos_discovery, domain_history,
                  hwVars, detVars, retryVars, text_call>>

----------------------------------------------------------------------------
\* Bounds of the model

MaxRuns == 2
\* failures of the external API and of the store that the environment injects
MaxFailures == 1
MaxDbErrors == 1

\* Program constants

\* @retry_with_backoff(max_retries=3, ...) on QBOClient.create_invoice
max_retries == 3

----------------------------------------------------------------------------
\* Universe

Workers == {"w1", "w2"}

\* Customer rows of the store: database id -> qbo_customer_id
customers == [c \in {1, 2} |-> [qbo_customer_id |-> IF c = 1 THEN "Q1" ELSE "Q2"]]

\* ids a caller may pass: the stored customers and one id with no row
CallerIds == DOMAIN customers \cup {3}

DomainIds == {1, 2}

Period == [year |-> 2025, month |-> 12]

\* what a call of generate_invoice_for_customer ends with: a QBO invoice id, None,
\* or an exception
None == [kind |-> "none"]
Raised == [kind |-> "raised"]
Returned(id) == [kind |-> "invoice", id |-> id]

----------------------------------------------------------------------------
\* Error classification (src/qbo/errors.py)
\* An error text is modelled by the set of classifier markers that occur in its
\* lower-cased form; classify_qbo_error reads nothing else of it.

Markers == {"429", "rate limit", "too many requests",
            "401", "403", "unauthorized", "forbidden",
            "400", "validation", "invalid",
            "404", "not found",
            "500", "502", "503", "504",
            "connection", "timeout", "network", "unreachable"}

Has(text, ms) == text \cap ms # {}

\* the first of '500', '502', '503', '504' found in the text
ServerStatus(text) ==
    IF "500" \in text THEN "500"
    ELSE IF "502" \in text THEN "502"
    ELSE IF "503" \in text THEN "503"
    ELSE "504"

\* (mutation) messages that carry no marker of their class
BareMessage(class, text) == {}

\* str() of each classified error: the fixed message of its class
ErrorText(class, text) ==
    CASE class = "rate_limit" -> {"rate limit"}    \* "QuickBooks API rate limit exceeded"
      [] class = "auth"       -> {}                \* "QuickBooks authentication failed"
      [] class = "validation" -> {"validation"}    \* "QuickBooks validation error"
      [] class = "not_found"  -> {"not found"}     \* "QuickBooks resource not found"
      [] class = "server"     -> {ServerStatus(text)} \* "QuickBooks server error (status: N)"
      [] class = "network"    -> {"network"}       \* "Network error communicating with QuickBooks"
      [] OTHER                -> text              \* QBOError(str(error))

\* (mutation) a classifier that looks for a status of the 5xx family first
ClassOfServerFirst(text) ==
    IF Has(text, {"500", "502", "503", "504"}) THEN "server"
    ELSE IF Has(text, {"429", "rate limit", "too many requests"}) THEN "rate_limit"
    ELSE IF Has(text, {"401", "403", "unauthorized", "forbidden"}) THEN "auth"
    ELSE IF Has(text, {"400", "validation", "invalid"}) THEN "validation"
    ELSE IF Has(text, {"404", "not found"}) THEN "not_found"
    ELSE IF Has(text, {"connection", "timeout", "network", "unreachable"}) THEN "network"
    ELSE "unclassified"

ClassOf(text) ==
    IF Has(text, {"429", "rate limit", "too many requests"}) THEN "rate_limit"
    ELSE IF Has(text, {"401", "403", "unauthorized", "forbidden"}) THEN "auth"
    ELSE IF Has(text, {"400", "validation", "invalid"}) THEN "validation"
    ELSE IF Has(text, {"404", "not found"}) THEN "not_found"
    ELSE IF Has(text, {"500", "502", "503", "504"}) THEN "server"
    ELSE IF Has(text, {"connection", "timeout", "network", "unreachable"}) THEN "network"
    ELSE "unclassified"

\* classify_qbo_error(error, operation): the classified error object
classify_qbo_error(text, operation) ==
    [class |-> ClassOf(text), text |-> ErrorText(ClassOf(text), text),
     operation |-> operation, original_error |-> text]

is_retryable(err) == err.class \in {"rate_limit", "server", "network"}

\* QBOClient._handle_error: classifies the upstream failure and raises the result
HandleError(operation, text) == classify_qbo_error(text, operation)

\* Upstream failures the external API answers create_invoice with in this model:
\* a transient one and a permanent one
UpstreamErrors == {{"503"}, {"400", "invalid"}}

----------------------------------------------------------------------------
\* Pattern exclusion filter (src/database/queries.py)
\* A name or a pattern is a sequence of characters.

\* str.lower() on the characters of the model
LowerChar(c) == IF c = "A" THEN "a" ELSE IF c = "B" THEN "b" ELSE c

lower(s) == [i \in DOMAIN s |-> LowerChar(s[i])]

\* fnmatch.fnmatch(name, pat) on POSIX (normcase changes nothing): '*' matches any
\* run of characters, '?' any one character, any other character itself; the
\* patterns of the model hold no '['
RECURSIVE fnmatch(_, _)
fnmatch(name, pat) ==
    IF pat = <<>> THEN name = <<>>
    ELSE IF Head(pat) = "*"
         THEN fnmatch(name, Tail(pat)) \/ (name # <<>> /\ fnmatch(Tail(name), pat))
    ELSE IF name = <<>> THEN FALSE
    ELSE IF Head(pat) = "?" THEN fnmatch(Tail(name), Tail(pat))
    ELSE Head(name) = Head(pat) /\ fnmatch(Tail(name), Tail(pat))

\* the active patterns of one type
ActivePatterns(type) ==
    {e.pattern : e \in {x \in exclusions : x.exclusion_type = type /\ x.active}}

\* (mutation) a filter that excludes nothing
NeverExcluded(name) == FALSE

is_domain_excluded(domain_name) ==
    \E pat \in ActivePatterns("domain") : fnmatch(lower(domain_name), lower(pat))

is_cos_excluded(cos_name) ==
    \E pat \in ActivePatterns("cos") : fnmatch(lower(cos_name), lower(pat))

\* the names and patterns of the model
DomainNames == {<<"a">>, <<"A", "b">>}
CosNames == {<<"b">>, <<"B", "a">>}
NoDomain == <<>>

ExclusionRows ==
    {[exclusion_type |-> "domain", pattern |-> <<"a", "*">>, active |-> TRUE],
     [exclusion_type |-> "domain", pattern |-> <<"?", "B">>, active |-> TRUE],
     [exclusion_type |-> "cos", pattern |-> <<"B">>, active |-> TRUE],
     [exclusion_type |-> "cos", pattern |-> <<"b", "*">>, active |-> FALSE]}

\* the exclusion tables a highwater calculation runs with: none, the pattern '*'
\* for domains, one CoS pattern, one domain pattern with an inactive CoS pattern
ExclusionTables ==
    {{},
     {[exclusion_type |-> "domain", pattern |-> <<"*">>, active |-> TRUE]},
     {[exclusion_type |-> "cos", pattern |-> <<"B">>, active |-> TRUE]},
     {[exclusion_type |-> "domain", pattern |-> <<"?", "B">>, active |-> TRUE],
      [exclusion_type |-> "cos", pattern |-> <<"b", "*">>, active |-> FALSE]}}

\* lookups by name
get_domain_by_name(domain_name) ==
    {d \in DOMAIN domains : domains[d].domain_name = domain_name}

\* QueryHelper.get_cos_mapping: the active mapping of a CoS name
get_cos_mapping(cos_name) ==
    {m \in DOMAIN cos_mappings : /\ cos_mappings[m].cos_name = cos_name
                                 /\ cos_mappings[m].active}

----------------------------------------------------------------------------
\* Invoice generator (src/qbo/invoice.py)

\* _generate_idempotency_key: "inv_{year}{month:02d}_" + sha256 of
\* "{qbo_customer_id}|{year}|{month:02d}"; the digest is modelled as the
\* (injective) tuple of what is hashed.
generate_idempotency_key(qbo_customer_id, year, month) ==
    <<"inv", year, month, <<qbo_customer_id, year, month>>>>

\* first of the month after the billing period
InvoiceDate(year, month) ==
    IF month = 12 THEN [year |-> year + 1, month |-> 1, day |-> 1]
    ELSE [year |-> year, month |-> month + 1, day |-> 1]

\* (mutation) a lookup that never finds the recorded invoice
ExistingInvoiceNeverFound(key) == {}

\* session.query(InvoiceHistory).filter(idempotency_key == key).first()
ExistingInvoice(key) == {h \in invoice_history : h.idempotency_key = key}

\* QueryHelper.get_domains_for_customer: the customer's active domains
get_domains_for_customer(c) ==
    {d \in DOMAIN domains : domains[d].customer_id = c /\ domains[d].active}

\* (mutation) the highwater rows of one domain, the non-billable ones included
AnyHighwater(d, year, month) ==
    {hw \in monthly_highwater : /\ hw.year = year /\ hw.month = month
                                /\ hw.domain_id = d}

\* the billable highwater rows of one domain in the period
BillableHighwater(d, year, month) ==
    {hw \in monthly_highwater : /\ hw.year = year /\ hw.month = month
                                /\ hw.domain_id = d /\ hw.billable}

\* a query that finds no row
NoRow == [found |-> FALSE]

\* QueryHelper.get_cos_mapping_by_id: the row with that id, or None
get_cos_mapping_by_id(id) ==
    IF id \in DOMAIN cos_mappings THEN cos_mappings[id] ELSE NoRow

\* one line per billable highwater row whose CoS mapping is found
LineItems(c, year, month) ==
    {[item_id |-> get_cos_mapping_by_id(hw.cos_id).qbo_item_id,
      quantity |-> hw.highwater_count,
      domain |-> domains[hw.domain_id].domain_name,
      cos |-> get_cos_mapping_by_id(hw.cos_id).cos_name] :
        hw \in {r \in UNION {BillableHighwater(d, year, month) : d \in get_domains_for_customer(c)} :
                    get_cos_mapping_by_id(r.cos_id) # NoRow}}

\* _get_customers_with_usage: owners of the domains with a billable row (sorted by
\* the caller with SortedSeq)
get_customers_with_usage(year, month) ==
    {domains[hw.domain_id].customer_id :
        hw \in {r \in monthly_highwater : r.year = year /\ r.month = month /\ r.billable}}

RECURSIVE SortedSeq(_)
SortedSeq(S) ==
    IF S = {} THEN <<>>
    ELSE LET m == CHOOSE x \in S : \A y \in S : x <= y
         IN <<m>> \o SortedSeq(S \ {m})

\* QuickBooks items: id -> current unit price (the external system's own data)
qbo_items == [i \in {"I1", "I2"} |-> [UnitPrice |-> 5, Active |-> i = "I1"]]

\* QBOClient.get_item_by_id: the item, or None when the lookup raises
get_item_by_id(item_id) ==
    IF item_id \in DOMAIN qbo_items THEN qbo_items[item_id] ELSE NoRow

\* the external invoices of one customer and billing period
ExternalFor(c, year, month) ==
    {i \in 1..Len(qbo_invoices) :
        /\ qbo_invoices[i].CustomerRef = customers[c].qbo_customer_id
        /\ qbo_invoices[i].TxnDate = InvoiceDate(year, month)}

RECURSIVE SumAmounts(_)
SumAmounts(lines) ==
    IF lines = {} THEN 0
    ELSE LET l == CHOOSE x \in lines : TRUE
         IN l.Amount + SumAmounts(lines \ {l})

\* QBOClient.create_invoice, the invoice object it saves: every line priced from
\* the item fetched at invoice time, or at 0.00 when get_item_by_id returned None
\* (the item is missing, or the lookup raised: lost_items); TotalAmt computed by
\* QuickBooks
BuildInvoice(qbo_customer_id, line_items, invoice_date, lost_items) ==
    LET unit_price(item_id) ==
            IF item_id \in lost_items \/ get_item_by_id(item_id) = NoRow THEN 0
            ELSE get_item_by_id(item_id).UnitPrice
        lines == {[ItemRef |-> li.item_id, Qty |-> li.quantity,
                   UnitPrice |-> unit_price(li.item_id),
                   Amount |-> unit_price(li.item_id) * li.quantity,
                   Description |-> <<li.domain, li.cos>>] : li \in line_items}
    IN [CustomerRef |-> qbo_customer_id, TxnDate |-> invoice_date,
        Line |-> lines, TotalAmt |-> SumAmounts(lines)]

\* (mutation) a wrapper that retries whatever the class of the error
RetryWhileAttemptsLeft(err, attempt) ==
    IF attempt >= max_retries THEN "raise" ELSE "retry"

\* retry_with_backoff.wrapper, the except branch: what it does with the error the
\* wrapped call raised on attempt number `attempt` (0-based)
WrapperDecision(err, attempt) ==
    IF ~is_retryable(err) THEN "raise"
    ELSE IF attempt >= max_retries THEN "raise"
    ELSE "retry"

NoCall == [customer |-> 0]

\* the completed invocations of all workers
Entries == UNION {{log[w][i] : i \in DOMAIN log[w]} : w \in Workers}

\* the entry the log keeps of one completed invocation
Entry(w, result, error, conflict) ==
    [customer |-> cur[w].customer, result |-> result, error |-> error,
     api_calls |-> cur[w].api_calls, saved |-> cur[w].saved,
     invoice_id |-> cur[w].invoice_id,
     had_record |-> cur[w].had_record, orphans |-> cur[w].orphans,
     marks |-> cur[w].marks, mismatch |-> cur[w].mismatch, conflict |-> conflict]

\* generate_all_invoices, the body of its loop after the call returned or raised;
\* a direct call hands the result (or the exception) to its caller
Complete(w, e) ==
    /\ log' = [log EXCEPT ![w] = Append(@, e)]
    /\ cur' = [cur EXCEPT ![w] = NoCall]
    /\ queue' = [queue EXCEPT ![w] = Tail(@)]
    /\ pc' = [pc EXCEPT ![w] = IF Tail(queue[w]) = <<>> THEN "idle" ELSE "loop"]
    /\ results' =
         IF mode[w] # "batch" THEN results
         ELSE IF e.result = Raised
              THEN [results EXCEPT ![w].failed =
                        Append(@, [customer_id |-> e.customer, error |-> e.error])]
         ELSE IF e.result # None
              THEN [results EXCEPT ![w].success =
                        Append(@, [customer_id |-> e.customer, invoice_id |-> e.result.id])]
         ELSE results

EmptyResults == [success |-> <<>>, failed |-> <<>>]

\* a caller invokes generate_invoice_for_customer(c, year, month) on a new session
StartSingle(w, c) ==
    /\ pc[w] = "idle"
    /\ runs < MaxRuns
    /\ runs' = runs + 1
    /\ pc' = [pc EXCEPT ![w] = "loop"]
    /\ mode' = [mode EXCEPT ![w] = "single"]
    /\ queue' = [queue EXCEPT ![w] = <<c>>]
    /\ session_ok' = [session_ok EXCEPT ![w] = TRUE]
    /\ UNCHANGED <<domains, monthly_highwater, cos_mappings, invoice_history,
                   qbo_invoices, cur, results, log, failures, db_errors>>
    /\ UNCHANGED invoiceOther

\* generate_all_invoices(year, month) on a new session, up to its loop
StartBatch(w) ==
    /\ pc[w] = "idle"
    /\ runs < MaxRuns
    /\ runs' = runs + 1
    /\ LET todo == SortedSeq(get_customers_with_usage(Period.year, Period.month))
       IN /\ queue' = [queue EXCEPT ![w] = todo]
          /\ pc' = [pc EXCEPT ![w] = IF todo = <<>> THEN "idle" ELSE "loop"]
    /\ mode' = [mode EXCEPT ![w] = "batch"]
    /\ results' = [results EXCEPT ![w] = EmptyResults]
    /\ session_ok' = [session_ok EXCEPT ![w] = TRUE]
    /\ UNCHANGED <<domains, monthly_highwater, cos_mappings, invoice_history,
                   qbo_invoices, cur, log, failures, db_errors>>
    /\ UNCHANGED invoiceOther

\* the lines of a saved invoice, as line items
SavedLines(inv) ==
    {[item_id |-> l.ItemRef, quantity |-> l.Qty, domain |-> l.Description[1],
      cos |-> l.Description[2]] : l \in inv.Line}

\* (kept for the log only) the recorded invoice of the key does not hold the lines
\* the billable highwater rows would give now
RecordedDiffers(c, key) ==
    \E h \in ExistingInvoice(key) :
       /\ h.qbo_invoice_id \in 1..Len(qbo_invoices)
       /\ SavedLines(qbo_invoices[h.qbo_invoice_id])
             # LineItems(c, Period.year, Period.month)

\* what an invocation finds when it starts (kept for the log only): the recorded
\* invoice of its key, the external invoices of its customer whose history write
\* failed, and the number of the customer's billable highwater rows
Begin(c, key) ==
    [customer |-> c, key |-> key, line_items |-> {}, excluded |-> {}, attempt |-> 0,
     api_calls |-> 0, saved |-> 0, invoice_id |-> 0, total |-> 0,
     had_record |-> {h.qbo_invoice_id : h \in ExistingInvoice(key)},
     mismatch |-> RecordedDiffers(c, key),
     orphans |-> {e.invoice_id :
                    e \in {x \in Entries : x.customer = c /\ x.error = "history_write"}},
     marks |-> Cardinality({hw \in monthly_highwater :
                               /\ hw.billable
                               /\ domains[hw.domain_id].customer_id = c})]

\* (kept for the claims only) the line items whose domain or CoS matches an
\* exclusion pattern that is active when the lines are built
ExcludedNow(lines) ==
    {li \in lines : is_domain_excluded(li.domain) \/ is_cos_excluded(li.cos)}

\* generate_invoice_for_customer up to the call of create_invoice
GenerateInvoiceForCustomer(w) ==
    /\ pc[w] = "loop"
    /\ LET c == Head(queue[w])
           key == IF c \in DOMAIN customers
                  THEN generate_idempotency_key(customers[c].qbo_customer_id,
                                                Period.year, Period.month)
                  ELSE <<>>
           b == Begin(c, key)
           lines == LineItems(c, Period.year, Period.month)
           done(result, error) ==
               Complete(w, [customer |-> c, result |-> result, error |-> error,
                            api_calls |-> 0, saved |-> 0, invoice_id |-> 0,
                            had_record |-> b.had_record,
                            orphans |-> b.orphans, marks |-> b.marks,
                            mismatch |-> b.mismatch, conflict |-> FALSE])
       IN IF ~session_ok[w]
          THEN done(Raised, "pending_rollback")
          ELSE IF c \notin DOMAIN customers
          THEN done(None, "")
          ELSE IF ExistingInvoice(key) # {}
          THEN done(Returned((CHOOSE h \in ExistingInvoice(key) : TRUE).qbo_invoice_id), "")
          ELSE IF get_domains_for_customer(c) = {}
          THEN done(None, "")
          ELSE IF lines = {}
          THEN done(None, "")
          ELSE /\ cur' = [cur EXCEPT ![w] =
                            [b EXCEPT !.line_items = lines,
                                      !.excluded = ExcludedNow(lines)]]
               /\ pc' = [pc EXCEPT ![w] = "create"]
               /\ UNCHANGED <<queue, results, log>>
    /\ UNCHANGED <<domains, monthly_highwater, cos_mappings, invoice_history,
                   qbo_invoices, mode, session_ok, runs, failures, db_errors>>
    /\ UNCHANGED invoiceOther

\* one attempt of QBOClient.create_invoice under retry_with_backoff: the wrapped
\* call and, when it raised, the wrapper's handling of the error
CreateInvoiceAttempt(w) ==
    /\ pc[w] = "create"
    /\ \E lost_items \in SUBSET {li.item_id : li \in cur[w].line_items} :
       LET inv == BuildInvoice(customers[cur[w].customer].qbo_customer_id,
                               cur[w].line_items,
                               InvoiceDate(Period.year, Period.month), lost_items)
           id == Len(qbo_invoices) + 1
           lost == IF lost_items = {} THEN 0 ELSE 1
       IN \/ \* invoice.save and the re-fetch both succeed
             /\ failures + lost <= MaxFailures
             /\ failures' = failures + lost
             /\ qbo_invoices' = Append(qbo_invoices, inv)
             /\ cur' = [cur EXCEPT ![w].api_calls = @ + 1, ![w].saved = @ + 1,
                                   ![w].invoice_id = id, ![w].total = inv.TotalAmt]
             /\ pc' = [pc EXCEPT ![w] = "record"]
             /\ UNCHANGED <<queue, results, log>>
          \/ \* the call fails, before invoice.save took effect or after it
             \E text \in UpstreamErrors, saved \in BOOLEAN :
               LET raised == HandleError("create_invoice", text)
                   err == classify_qbo_error(raised.text, "create_invoice")
                   calls == [cur EXCEPT ![w].api_calls = @ + 1,
                                        ![w].saved = @ + (IF saved THEN 1 ELSE 0)]
               IN /\ failures + lost < MaxFailures
                  /\ failures' = failures + lost + 1
                  /\ qbo_invoices' = IF saved THEN Append(qbo_invoices, inv)
                                     ELSE qbo_invoices
                  /\ IF WrapperDecision(err, cur[w].attempt) = "retry"
                     THEN /\ cur' = [calls EXCEPT ![w].attempt = @ + 1]
                          /\ UNCHANGED <<pc, queue, results, log>>
                     ELSE Complete(w, [customer |-> cur[w].customer, result |-> Raised,
                                       error |-> err.class,
                                       api_calls |-> calls[w].api_calls,
                                       saved |-> calls[w].saved,
                                       invoice_id |-> 0,
                                       had_record |-> cur[w].had_record,
                                       orphans |-> cur[w].orphans,
                                       marks |-> cur[w].marks,
                                       mismatch |-> cur[w].mismatch,
                                       conflict |-> FALSE])
    /\ UNCHANGED <<domains, monthly_highwater, cos_mappings, invoice_history,
                   mode, session_ok, runs, db_errors>>
    /\ UNCHANGED invoiceOther

\* the storage layer's uniqueness constraint on InvoiceHistory.idempotency_key
UniqueKeyViolated(key) == \E h \in invoice_history : h.idempotency_key = key

\* _record_invoice_history, and the end of generate_invoice_for_customer
RecordInvoiceHistory(w) ==
    /\ pc[w] = "record"
    /\ \E db_error \in {FALSE} \cup {x \in {TRUE} : db_errors < MaxDbErrors} :
         /\ db_errors' = db_errors + (IF db_error THEN 1 ELSE 0)
         /\ IF db_error \/ UniqueKeyViolated(cur[w].key)
            THEN \* the flush fails: the exception is logged and raised again, and
                 \* the session is left with no rollback
                 /\ session_ok' = [session_ok EXCEPT ![w] = FALSE]
                 /\ Complete(w, Entry(w, Raised, "history_write",
                                      UniqueKeyViolated(cur[w].key)))
                 /\ UNCHANGED invoice_history
            ELSE /\ invoice_history' = invoice_history \cup
                       {[qbo_invoice_id |-> cur[w].invoice_id,
                         customer_id |-> cur[w].customer,
                         billing_year |-> Period.year,
                         billing_month |-> Period.month,
                         total_amount |-> cur[w].total,
                         line_items_count |-> Cardinality(cur[w].line_items),
                         status |-> "draft",
                         idempotency_key |-> cur[w].key]}
                 /\ Complete(w, Entry(w, Returned(cur[w].invoice_id), "", FALSE))
                 /\ UNCHANGED session_ok
    /\ UNCHANGED <<domains, monthly_highwater, cos_mappings, qbo_invoices, mode, runs,
                   failures>>
    /\ UNCHANGED invoiceOther

\* the patterns of the configuration file (exclusions.domains)
DefaultExclusions ==
    {[exclusion_type |-> "domain", pattern |-> <<"a", "*">>, active |-> TRUE]}

\* DatabaseManager.initialize_database (the init-db command), run on the existing
\* store: _load_default_exclusions loads the configured patterns when the
\* Exclusion table is empty
LoadDefaultExclusions ==
    /\ exclusions = {}
    /\ exclusions' = DefaultExclusions
    /\ UNCHANGED <<domains, monthly_highwater, cos_mappings, usage_data, cos_discovery,
                   domain_history, invoiceVars, hwVars, detVars, retryVars, text_call>>

----------------------------------------------------------------------------
\* Highwater aggregator (src/zimbra/calculator.py)

MaxReports == 2

\* account counts a report line can carry: _parse_cos_line takes int() of the text
\* after the colon
Counts == {-1, 1, 2}
ReportDays == {1, 2}

CosUsages == UNION {[S -> Counts] : S \in (SUBSET CosNames) \ {{}}}

\* the records a parsed report can hold, and one record with no domain
Records ==
    {[domain |-> d, cos_usage |-> u, report_date |-> t] :
        d \in DomainNames, u \in CosUsages, t \in ReportDays}
    \cup {[domain |-> NoDomain, cos_usage |-> [c \in {<<"b">>} |-> 2], report_date |-> 1]}

EmptyMap == [k \in {} |-> 0]

NoDate == 0

\* defaultdict(lambda: {'count': 0, 'dates': []}); 'peak_date' is set with the count
Fresh == [count |-> 0, dates |-> <<>>, peak_date |-> NoDate]

\* the body of the loop over the reports
AddReport(acc, report) ==
    IF report.domain = NoDomain THEN acc
    ELSE LET keys == {<<report.domain, c>> : c \in DOMAIN report.cos_usage}
             old(k) == IF k \in DOMAIN acc THEN acc[k] ELSE Fresh
         IN [k \in DOMAIN acc \cup keys |->
               IF k \notin keys THEN acc[k]
               ELSE LET count == report.cos_usage[k[2]]
                        higher == count > old(k).count
                    IN [count |-> IF higher THEN count ELSE old(k).count,
                        dates |-> Append(old(k).dates, report.report_date),
                        peak_date |-> IF higher THEN report.report_date
                                      ELSE old(k).peak_date]]

RECURSIVE FoldReports(_, _)
FoldReports(acc, reports) ==
    IF reports = <<>> THEN acc
    ELSE FoldReports(AddReport(acc, Head(reports)), Tail(reports))

calculate_monthly_highwater(reports) == FoldReports(EmptyMap, reports)

----------------------------------------------------------------------------
\* Usage and highwater persistence (src/main.py, src/database/queries.py)

MaxHwRuns == 2

\* QueryHelper.store_usage_data for every item of one record: an unknown domain or
\* an unmapped CoS is skipped (the CoS is tracked as a discovery), a row of the
\* same (report_date, domain, cos) is overwritten
StoreRecord(st, record) ==
    LET ds == get_domain_by_name(record.domain)
        mapped == {c \in DOMAIN record.cos_usage : get_cos_mapping(c) # {}}
        unmapped == (DOMAIN record.cos_usage) \ mapped
        d == CHOOSE x \in ds : TRUE
        row(c) == [report_date |-> record.report_date, domain_id |-> d,
                   cos_id |-> CHOOSE m \in get_cos_mapping(c) : TRUE,
                   account_count |-> record.cos_usage[c]]
        same(r, c) == /\ r.report_date = record.report_date
                      /\ r.domain_id = d
                      /\ r.cos_id = row(c).cos_id
    IN IF ds = {} THEN st
       ELSE [usage |-> {r \in st.usage : \A c \in mapped : ~same(r, c)}
                         \cup {row(c) : c \in mapped},
             discovery |-> [c \in DOMAIN st.discovery \cup unmapped |->
                              IF c \notin unmapped THEN st.discovery[c]
                              ELSE IF c \in DOMAIN st.discovery
                                   THEN st.discovery[c] + 1
                                   ELSE 1]]

RECURSIVE StoreAll(_, _)
StoreAll(st, reports) ==
    IF reports = <<>> THEN st
    ELSE StoreAll(StoreRecord(st, Head(reports)), Tail(reports))

\* get_usage_for_month: every report day of the model lies in the period
get_usage_for_month(year, month) == usage_data

MaxOf(S) == CHOOSE x \in S : \A y \in S : y <= x

\* the grouping loop of calculate_and_store_highwater: (domain_id, cos_id) -> maximum
highwater_dict(usage) ==
    [key \in {<<u.domain_id, u.cos_id>> : u \in usage} |->
        MaxOf({u.account_count : u \in {x \in usage : /\ x.domain_id = key[1]
                                                      /\ x.cos_id = key[2]}})]

SameMark(r, year, month, key) ==
    /\ r.year = year /\ r.month = month
    /\ r.domain_id = key[1] /\ r.cos_id = key[2]

NewMark(year, month, key, count, billable, now) ==
    [year |-> year, month |-> month, domain_id |-> key[1], cos_id |-> key[2],
     highwater_count |-> count, billable |-> billable, calculated_at |-> now]

\* (mutation) a writer that adds a row whether or not the mark has one
InsertMark(rows, year, month, key, count, billable, now) ==
    rows \cup {NewMark(year, month, key, count, billable, now)}

\* the existing row of the mark is overwritten, a missing one is added
UpsertMark(rows, year, month, key, count, billable, now) ==
    {r \in rows : ~SameMark(r, year, month, key)}
    \cup {NewMark(year, month, key, count, billable, now)}

RECURSIVE StoreMarks(_, _, _, _, _)
StoreMarks(rows, year, month, dict, now) ==
    IF DOMAIN dict = {} THEN rows
    ELSE LET key == CHOOSE k \in DOMAIN dict : TRUE
             billable == ~(\/ is_domain_excluded(domains[key[1]].domain_name)
                           \/ is_cos_excluded(cos_mappings[key[2]].cos_name))
         IN StoreMarks(UpsertMark(rows, year, month, key, dict[key], billable, now),
                       year, month,
                       [k \in (DOMAIN dict) \ {key} |-> dict[k]], now)

\* a highwater row without the time it was calculated at
Mark(r) == [year |-> r.year, month |-> r.month, domain_id |-> r.domain_id,
            cos_id |-> r.cos_id, highwater_count |-> r.highwater_count,
            billable |-> r.billable]

\* a report is parsed and its records join the period's list
AppendReport(record) ==
    /\ hw_pc = "collect"
    /\ Len(parsed_reports) < MaxReports
    /\ parsed_reports' = Append(parsed_reports, record)
    /\ UNCHANGED <<storeVars, invoiceVars, highwater_data, hw_pc, hw_runs, hw_log,
                   detVars, retryVars, text_call>>

\* process_reports: calculator.calculate_monthly_highwater(all_parsed_data)
CalculateMonthlyHighwater ==
    /\ hw_pc = "collect"
    /\ highwater_data' = calculate_monthly_highwater(parsed_reports)
    /\ hw_pc' = "calculated"
    /\ UNCHANGED <<storeVars, invoiceVars, parsed_reports, hw_runs, hw_log,
                   detVars, retryVars, text_call>>

\* process_reports: store_usage_data(all_parsed_data, query_helper)
StoreUsageData ==
    /\ hw_pc = "calculated"
    /\ LET st == StoreAll([usage |-> usage_data, discovery |-> cos_discovery],
                          parsed_reports)
       IN /\ usage_data' = st.usage
          /\ cos_discovery' = st.discovery
    /\ hw_pc' = "stored"
    /\ UNCHANGED <<domains, monthly_highwater, cos_mappings, exclusions, domain_history,
                   invoiceVars, parsed_reports, highwater_data, hw_runs, hw_log,
                   detVars, retryVars, text_call>>

\* QueryHelper.calculate_and_store_highwater(year, month), run again at will
CalculateAndStoreHighwater ==
    /\ hw_pc \in {"stored", "done"}
    /\ hw_runs < MaxHwRuns
    /\ hw_runs' = hw_runs + 1
    /\ monthly_highwater' =
         StoreMarks(monthly_highwater, Period.year, Period.month,
                    highwater_dict(get_usage_for_month(Period.year, Period.month)),
                    hw_runs + 1)
    /\ hw_log' = Append(hw_log, {Mark(r) : r \in monthly_highwater'})
    /\ hw_pc' = "done"
    /\ UNCHANGED <<domains, cos_mappings, exclusions, usage_data, cos_discovery,
                   domain_history, invoiceVars, parsed_reports, highwater_data,
                   detVars, retryVars, text_call>>

----------------------------------------------------------------------------
\* Change detector and mapping decisions (src/reconciliation/detector.py,
\* src/database/queries.py)

MaxMappings == 2

\* find_new_domains: observed names with no Domain row, the excluded ones dropped
\* (the result is a sorted list; its order is not modelled)
find_new_domains(current_domains) ==
    {n \in current_domains \ {domains[d].domain_name : d \in DOMAIN domains} :
        ~is_domain_excluded(n)}

\* (mutation) a detector that does not look at the mappings
NewCosWhateverMapped(current_cos_names) ==
    {n \in current_cos_names : ~is_cos_excluded(n)}

\* find_new_cos: observed names with no active mapping, the excluded ones dropped
find_new_cos(current_cos_names) ==
    {n \in current_cos_names \
            {cos_mappings[m].cos_name :
                m \in {x \in DOMAIN cos_mappings : cos_mappings[x].active}} :
        ~is_cos_excluded(n)}

NotCalled == [called |-> FALSE]

FindNewDomains(current_domains) ==
    /\ new_domains' = [called |-> TRUE, current |-> current_domains,
                       result |-> find_new_domains(current_domains)]
    /\ UNCHANGED <<storeVars, invoiceVars, hwVars, new_cos, mappings_made, recVars,
                   retryVars, text_call>>

FindNewCos(current_cos_names) ==
    /\ new_cos' = [called |-> TRUE, current |-> current_cos_names,
                   result |-> find_new_cos(current_cos_names)]
    /\ UNCHANGED <<storeVars, invoiceVars, hwVars, new_domains, mappings_made,
                   recVars, retryVars, text_call>>

NextId(table) == Cardinality(DOMAIN table) + 1

\* QueryHelper.assign_domain_to_customer with _log_domain_history
AssignDomainToCustomer(domain_name, customer_id) ==
    /\ mappings_made < MaxMappings
    /\ mappings_made' = mappings_made + 1
    /\ LET found == get_domain_by_name(domain_name)
           d == IF found = {} THEN NextId(domains) ELSE CHOOSE x \in found : TRUE
           old_customer_id == IF found = {} THEN 0 ELSE domains[d].customer_id
       IN /\ domains' =
               IF found = {}
               THEN [x \in DOMAIN domains \cup {d} |->
                        IF x = d THEN [domain_name |-> domain_name,
                                       customer_id |-> customer_id, active |-> TRUE]
                        ELSE domains[x]]
               ELSE [domains EXCEPT ![d].customer_id = customer_id]
          /\ domain_history' =
               Append(domain_history,
                      [domain_id |-> d,
                       event_type |-> IF old_customer_id = 0 THEN "assigned" ELSE "moved",
                       old_customer_id |-> old_customer_id,
                       new_customer_id |-> customer_id])
    /\ UNCHANGED <<monthly_highwater, cos_mappings, exclusions, usage_data,
                   cos_discovery, invoiceVars, hwVars, new_domains, new_cos, recVars,
                   retryVars, text_call>>

\* QueryHelper.create_cos_mapping: the insert fails on the unique cos_name when a
\* row of that name exists
CreateCosMapping(cos_name) ==
    /\ mappings_made < MaxMappings
    /\ mappings_made' = mappings_made + 1
    /\ cos_mappings' =
         IF \E m \in DOMAIN cos_mappings : cos_mappings[m].cos_name = cos_name
         THEN cos_mappings
         ELSE [x \in DOMAIN cos_mappings \cup {NextId(cos_mappings)} |->
                  IF x \in DOMAIN cos_mappings THEN cos_mappings[x]
                  ELSE [cos_name |-> cos_name, qbo_item_id |-> "I1", unit_price |-> 4,
                        quota_gb |-> 50, active |-> TRUE]]
    /\ UNCHANGED <<domains, monthly_highwater, exclusions, usage_data, cos_discovery,
                   domain_history, invoiceVars, hwVars, new_domains, new_cos, recVars,
                   retryVars, text_call>>

----------------------------------------------------------------------------
\* Reconciliation: detect_all_changes and the mapping manager
\* (src/reconciliation/detector.py, src/reconciliation/mapper.py, src/main.py)

\* the period before (year, month)
PreviousPeriod(year, month) ==
    IF month = 1 THEN [year |-> year - 1, month |-> 12]
    ELSE [year |-> year, month |-> month - 1]

get_highwater_for_month(year, month, billable_only) ==
    {hw \in monthly_highwater : /\ hw.year = year /\ hw.month = month
                                /\ billable_only => hw.billable}

\* find_missing_domains: names of the domains with a highwater row in the previous
\* period (the query is made with billable_only at its default, False) that are
\* not observed now
find_missing_domains(current_domains, year, month) ==
    LET prev == PreviousPeriod(year, month)
        prev_highwater == get_highwater_for_month(prev.year, prev.month, FALSE)
        prev_domains == {domains[hw.domain_id].domain_name :
                            hw \in {r \in prev_highwater : r.domain_id \in DOMAIN domains}}
    IN prev_domains \ current_domains

\* find_reappearing_domains: inactive domains observed now, the excluded dropped
find_reappearing_domains(current_domains) ==
    {domains[d].domain_name :
        d \in {x \in DOMAIN domains : /\ ~domains[x].active
                                      /\ domains[x].domain_name \in current_domains
                                      /\ ~is_domain_excluded(domains[x].domain_name)}}

\* find_obsolete_cos_mappings: active mappings whose name is not observed now
find_obsolete_cos_mappings(current_cos_names) ==
    {[cos_name |-> cos_mappings[m].cos_name, mapping_id |-> m] :
        m \in {x \in DOMAIN cos_mappings : /\ cos_mappings[x].active
                                           /\ cos_mappings[x].cos_name \notin current_cos_names}}

\* find_invalid_qbo_item_mappings: active mappings whose item is missing or inactive
find_invalid_qbo_item_mappings ==
    {[cos_name |-> cos_mappings[m].cos_name, mapping_id |-> m] :
        m \in {x \in DOMAIN cos_mappings :
                  /\ cos_mappings[x].active
                  /\ \/ get_item_by_id(cos_mappings[x].qbo_item_id) = NoRow
                     \/ ~get_item_by_id(cos_mappings[x].qbo_item_id).Active}}

\* (mutation) a flag that also counts the missing domains
AttentionWithMissing(c) ==
    \/ c.new_domains # {} \/ c.new_cos # {} \/ c.obsolete_cos # {}
    \/ c.invalid_qbo_items # {} \/ c.reappearing_domains # {}
    \/ c.missing_domains # {}

\* the needs_attention expression of detect_all_changes
NeedsAttention(c) ==
    \/ c.new_domains # {}
    \/ c.new_cos # {}
    \/ c.obsolete_cos # {}
    \/ c.invalid_qbo_items # {}
    \/ c.new_cos # {}
    \/ c.reappearing_domains # {}

\* detect_all_changes(current_data, year, month, qbo_client)
detect_all_changes(current_domains, current_cos, year, month, qbo_client) ==
    LET c == [new_domains |-> find_new_domains(current_domains),
              missing_domains |-> find_missing_domains(current_domains, year, month),
              reappearing_domains |-> find_reappearing_domains(current_domains),
              new_cos |-> find_new_cos(current_cos),
              obsolete_cos |-> find_obsolete_cos_mappings(current_cos),
              invalid_qbo_items |-> IF qbo_client THEN find_invalid_qbo_item_mappings
                                    ELSE {}]
    IN [new_domains |-> c.new_domains, missing_domains |-> c.missing_domains,
        reappearing_domains |-> c.reappearing_domains, new_cos |-> c.new_cos,
        obsolete_cos |-> c.obsolete_cos, invalid_qbo_items |-> c.invalid_qbo_items,
        needs_attention |-> NeedsAttention(c)]

\* the detection passes: for December with a QBO client, for January without one
DetectRuns == {[year |-> Period.year, month |-> Period.month, qbo_client |-> TRUE],
               [year |-> Period.year + 1, month |-> 1, qbo_client |-> FALSE]}

\* extract_current_data(highwater_data): the names among the keys of the marks
extract_current_data(keys) ==
    [domains |-> {k[1] : k \in keys}, cos_names |-> {k[2] : k \in keys}]

\* what the reports of a period can show: nothing, either domain with one CoS,
\* both domains with one CoS or with both
ObservedKeys ==
    {{}, {<<<<"a">>, <<"b">>>>}, {<<<<"A", "b">>, <<"B", "a">>>>},
     {<<<<"a">>, <<"b">>>>, <<<<"A", "b">>, <<"b">>>>},
     DomainNames \X CosNames}

Observations == {extract_current_data(keys) : keys \in ObservedKeys}

\* run_reconciliation up to its first prompt: the pass ends here when nothing
\* needs attention
DetectAllChanges(current_data, period) ==
    /\ LET bundle == detect_all_changes(current_data.domains, current_data.cos_names,
                                        period.year, period.month, period.qbo_client)
       IN changes' = [called |-> TRUE, domains |-> current_data.domains,
                      cos_names |-> current_data.cos_names, year |-> period.year,
                      month |-> period.month, prompted |-> {},
                      finished |-> ~bundle.needs_attention, bundle |-> bundle]
    /\ UNCHANGED <<storeVars, invoiceVars, hwVars, new_domains, new_cos, mappings_made,
                   change_log, map_result, retryVars, text_call>>

\* (mutation) a log_change that writes no row
LogNothing(change_type, entity_type, entity_id, user_decision) == change_log

\* QueryHelper.log_change: one ChangeLog row, committed
log_change(change_type, entity_type, entity_id, user_decision) ==
    Append(change_log, [change_type |-> change_type, entity_type |-> entity_type,
                        entity_id |-> entity_id, user_decision |-> user_decision])

\* MappingManager.map_domain_to_customer: assign_domain_to_customer (with
\* _log_domain_history, whose lookup flushes the pending Domain row), then log_change
MapDomainToCustomer(domain_name, customer_id) ==
    /\ mappings_made < MaxMappings
    /\ mappings_made' = mappings_made + 1
    /\ LET found == get_domain_by_name(domain_name)
           d == IF found = {} THEN NextId(domains) ELSE CHOOSE x \in found : TRUE
           old_customer_id == IF found = {} THEN 0 ELSE domains[d].customer_id
       IN /\ domains' =
               IF found = {}
               THEN [x \in DOMAIN domains \cup {d} |->
                        IF x = d THEN [domain_name |-> domain_name,
                                       customer_id |-> customer_id, active |-> TRUE]
                        ELSE domains[x]]
               ELSE [domains EXCEPT ![d].customer_id = customer_id]
          /\ domain_history' =
               Append(domain_history,
                      [domain_id |-> d,
                       event_type |-> IF old_customer_id = 0 THEN "assigned" ELSE "moved",
                       old_customer_id |-> old_customer_id,
                       new_customer_id |-> customer_id])
          /\ change_log' = log_change("domain_assignment", "domain", d, TRUE)
          /\ map_result' = [kind |-> "domain", name |-> domain_name,
                            customer_id |-> customer_id, id |-> d,
                            old_customer_id |-> old_customer_id,
                            existed |-> found # {}]
    /\ UNCHANGED <<monthly_highwater, cos_mappings, exclusions, usage_data,
                   cos_discovery, invoiceVars, hwVars, new_domains, new_cos, changes,
                   retryVars, text_call>>

\* MappingManager.map_cos_to_qbo_item for a name the last detection pass reported
\* (main.run_reconciliation goes through new_cos once): create_cos_mapping always inserts, and the insert
\* violates the unique cos_name when a row of that name exists; then the commit
\* raises IntegrityError and nothing is logged
MapCosToQboItem(cos_name) ==
    /\ mappings_made < MaxMappings
    /\ changes.called
    /\ ~changes.finished
    /\ cos_name \in changes.bundle.new_cos \ changes.prompted
    /\ changes' = [changes EXCEPT !.prompted = @ \cup {cos_name}]
    /\ mappings_made' = mappings_made + 1
    /\ IF \E m \in DOMAIN cos_mappings : cos_mappings[m].cos_name = cos_name
       THEN /\ map_result' = [kind |-> "raised", name |-> cos_name]
            /\ UNCHANGED <<cos_mappings, change_log>>
       ELSE /\ cos_mappings' =
                 [x \in DOMAIN cos_mappings \cup {NextId(cos_mappings)} |->
                     IF x \in DOMAIN cos_mappings THEN cos_mappings[x]
                     ELSE [cos_name |-> cos_name, qbo_item_id |-> "I1",
                           unit_price |-> 4, quota_gb |-> 50, active |-> TRUE]]
            /\ change_log' = log_change("cos_mapping", "cos", NextId(cos_mappings), TRUE)
            /\ map_result' = [kind |-> "cos", name |-> cos_name,
                              id |-> NextId(cos_mappings)]
    /\ UNCHANGED <<domains, monthly_highwater, exclusions, usage_data, cos_discovery,
                   domain_history, invoiceVars, hwVars, new_domains, new_cos, retryVars, text_call>>

\* main.run_reconciliation, obsolete mappings: the user confirms and the mapping
\* the last pass reported is marked inactive (the row stays)
DeactivateObsoleteCos(mapping_id) ==
    /\ mappings_made < MaxMappings
    /\ changes.called
    /\ ~changes.finished
    /\ \E o \in changes.bundle.obsolete_cos : o.mapping_id = mapping_id
    /\ mapping_id \in DOMAIN cos_mappings
    /\ mappings_made' = mappings_made + 1
    /\ cos_mappings' = [cos_mappings EXCEPT ![mapping_id].active = FALSE]
    /\ change_log' = log_change("cos_mapping_deactivated", "cos", mapping_id, FALSE)
    /\ map_result' = [kind |-> "deactivated", id |-> mapping_id]
    /\ UNCHANGED <<domains, monthly_highwater, exclusions, usage_data, cos_discovery,
                   domain_history, invoiceVars, hwVars, new_domains, new_cos, changes,
                   retryVars, text_call>>

\* the ChangeLog rows the loop over the reappearing domains writes, one for each
\* stored domain (in the order of the ids)
RECURSIVE LogReappeared(_, _)
LogReappeared(rows, ids) ==
    IF ids = <<>> THEN rows
    ELSE LogReappeared(Append(rows, [change_type |-> "domain_reappeared",
                                     entity_type |-> "domain", entity_id |-> Head(ids),
                                     user_decision |-> FALSE]),
                       Tail(ids))

\* main.run_reconciliation, its last part: every reappearing domain the pass
\* reported is marked active again and a ChangeLog row is written for it; then the
\* pass is over
ReactivateReappearing ==
    /\ changes.called
    /\ ~changes.finished
    /\ LET ids == {d \in DOMAIN domains :
                      domains[d].domain_name \in changes.bundle.reappearing_domains}
       IN /\ domains' = [d \in DOMAIN domains |->
                            IF d \in ids THEN [domains[d] EXCEPT !.active = TRUE]
                            ELSE domains[d]]
          /\ change_log' = LogReappeared(change_log, SortedSeq(ids))
    /\ changes' = [changes EXCEPT !.finished = TRUE]
    /\ UNCHANGED <<monthly_highwater, cos_mappings, exclusions, usage_data,
                   cos_discovery, domain_history, invoiceVars, hwVars, new_domains,
                   new_cos, mappings_made, map_result, retryVars, text_call>>

----------------------------------------------------------------------------
\* One call of QBOClient.get_all_customers under retry_with_backoff
\* (src/qbo/client.py, src/qbo/errors.py); delays are in tenths of a second

\* @retry_with_backoff(max_retries=3, initial_delay=1.0)
initial_delay == 1
max_delay == 60
exponential_base == 2
\* QBORateLimitError: self.retry_after = retry_after or 60
default_retry_after == 60

\* delay * (0.5 + random.random()): the factor, in tenths, lies in [5, 15)
JitterTenths == {5, 10, 14}

\* the failures the external API answers a call with
\* (a message may carry the markers of several classes)
RetryUpstream == {{"429"}, {"401"}, {"400"}, {"404"}, {"503"}, {"timeout"}, {},
                  {"400", "503"}, {"429", "401"}, {"404", "timeout"}}

RECURSIVE Pow(_, _)
Pow(b, n) == IF n = 0 THEN 1 ELSE b * Pow(b, n - 1)

MinOf(a, b) == IF a <= b THEN a ELSE b

\* the delay before the jitter, in seconds
BaseDelay(err, attempt) ==
    IF err.class = "rate_limit" THEN default_retry_after
    ELSE MinOf(initial_delay * Pow(exponential_base, attempt), max_delay)

NoError == [class |-> "none"]

CallOperation ==
    /\ r_pc = "idle"
    /\ r_pc' = "call"
    /\ UNCHANGED <<storeVars, invoiceVars, hwVars, detVars, text_call, r_attempt, r_calls,
                   r_errors, r_delay, r_sleeps, r_raised>>

\* one pass of the wrapper's loop: the wrapped call and the except branch
OperationAttempt ==
    /\ r_pc = "call"
    /\ r_calls' = r_calls + 1
    /\ \/ /\ r_pc' = "returned"
          /\ UNCHANGED <<r_errors, r_delay, r_raised>>
       \/ \E text \in RetryUpstream, jitter \in JitterTenths :
            LET raised == HandleError("get_all_customers", text)
                err == classify_qbo_error(raised.text, "get_all_customers")
            IN /\ r_errors' = Append(r_errors, [upstream |-> text, raised |-> raised,
                                                classified |-> err])
               /\ IF WrapperDecision(err, r_attempt) = "raise"
                  THEN /\ r_raised' = err
                       /\ r_pc' = "raised"
                       /\ UNCHANGED r_delay
                  ELSE /\ r_delay' = BaseDelay(err, r_attempt) * jitter
                       /\ r_pc' = "sleep"
                       /\ UNCHANGED r_raised
    /\ UNCHANGED <<storeVars, invoiceVars, hwVars, detVars, text_call, r_attempt, r_sleeps>>

\* time.sleep(delay), then the next pass of the loop
BackoffSleep ==
    /\ r_pc = "sleep"
    /\ r_sleeps' = Append(r_sleeps, r_delay)
    /\ r_attempt' = r_attempt + 1
    /\ r_pc' = "call"
    /\ UNCHANGED <<storeVars, invoiceVars, hwVars, detVars, text_call, r_calls, r_errors,
                   r_delay, r_raised>>

----------------------------------------------------------------------------
\* Query string escaping (src/qbo/client.py)
\* A string is a sequence of characters.

\* max_length = 255
max_length == 255

\* str.replace(old, new) for a one-character old: every occurrence replaced, the
\* other characters kept in place (computed by halves)
RECURSIVE Replace(_, _, _)
Replace(value, old, new) ==
    IF value = <<>> THEN <<>>
    ELSE IF Len(value) = 1 THEN (IF value[1] = old THEN new ELSE value)
    ELSE LET half == Len(value) \div 2
         IN Replace(SubSeq(value, 1, half), old, new)
            \o Replace(SubSeq(value, half + 1, Len(value)), old, new)

\* _escape_qbo_query_string(value): quotes doubled, then '%' and '_' prefixed with
\* a backslash, then the result cut to max_length characters
escape_qbo_query_string(value) ==
    IF value = <<>> THEN value
    ELSE LET quoted == Replace(value, "'", <<"'", "'">>)
             percent == Replace(quoted, "%", <<"\\", "%">>)
             escaped == Replace(percent, "_", <<"\\", "_">>)
         IN IF Len(escaped) > max_length THEN SubSeq(escaped, 1, max_length)
            ELSE escaped

\* the search terms of the model: a run of plain characters, short or about as
\* long as the limit, followed by a few characters of any kind
MaxTail == 2

QueryChars == {"a", "'", "%", "_", "\\"}

FillLengths == {0, max_length - 2, max_length - 1, max_length}

Fill(n) == [i \in 1..n |-> "a"]

Tails == UNION {[1..n -> QueryChars] : n \in 0..MaxTail}

QueryValues == {Fill(n) \o tail : n \in FillLengths, tail \in Tails}

\* search_customers: escaped_term = _escape_qbo_query_string(search_term)
EscapeQueryString ==
    /\ ~text_call.called
    /\ text_call.op = "escape"
    /\ text_call' = [called |-> TRUE, op |-> "escape", input |-> text_call.input,
                     result |-> escape_qbo_query_string(text_call.input)]
    /\ UNCHANGED <<storeVars, invoiceVars, hwVars, detVars, retryVars>>

----------------------------------------------------------------------------
\* Report parser (src/zimbra/parser.py)
\* A report is a sequence of lines; a line is modelled by what the parser reads of
\* it: how it starts once stripped, the name it carries, and the text after the
\* colon (whether int() accepts it, and the number it gives).
\*   "blank"     an empty line or white space only
\*   "rule"      a line that starts with '---'
\*   "header"    '| CoS Usage for <name>:'
\*   "dash"      '- <name>: <count>'
\*   "bare"      '<name>'                 (no leading mark, no colon)
\*   "indented"  '    <name>: <count>'    (leading spaces, no dash)

MaxLines == 3

\* names with a dot and a top-level domain, and one without
ValidDomainNames == {"d.com", "e.com"}
ReportDomainNames == ValidDomainNames \cup {"nodot"}

\* a line with no number after a colon
TextLine(lead, name) == [lead |-> lead, name |-> name, numeric |-> FALSE, count |-> 0]

\* a line '<name>: <count>' with digits after the colon
CountLine(lead, name, count) ==
    [lead |-> lead, name |-> name, numeric |-> TRUE, count |-> count]

ReportLines ==
    {TextLine("blank", "")}
    \cup {TextLine("header", d) : d \in ReportDomainNames}
    \cup {TextLine("bare", d) : d \in ValidDomainNames}
    \cup {TextLine("dash", "c1"), CountLine("dash", "c1", 3), CountLine("dash", "c2", 5),
          CountLine("indented", "c1", 3), CountLine("indented", "c2", 5)}

ReportTexts == UNION {[1..n -> ReportLines] : n \in 0..MaxLines}

\* _is_valid_domain
is_valid_domain(domain) == domain \in ValidDomainNames

\* _parse_cos_line: (cos_name, count), or None when int() fails
parse_cos_line(line) ==
    IF ~line.numeric THEN NoRow
    ELSE [found |-> TRUE, cos_name |-> line.name, count |-> line.count]

NoCurrentDomain == ""

\* the record appended for a domain
DomainRecord(st, report_date) ==
    [domain |-> st.current_domain, cos_usage |-> st.current_cos_usage,
     report_date |-> report_date]

\* the body of the loop over the lines
ParseLine(st, line, report_date) ==
    IF line.lead \in {"blank", "rule"} THEN st
    ELSE IF line.lead = "header"
    THEN LET saved == st.current_domain # NoCurrentDomain
                      /\ st.current_cos_usage # EmptyMap
         IN [results |-> IF saved THEN Append(st.results, DomainRecord(st, report_date))
                         ELSE st.results,
             current_domain |-> IF is_valid_domain(line.name) THEN line.name
                                ELSE NoCurrentDomain,
             current_cos_usage |-> IF saved THEN EmptyMap ELSE st.current_cos_usage]
    ELSE IF line.lead = "dash" /\ st.current_domain # NoCurrentDomain
    THEN LET cos_data == parse_cos_line(line)
         IN IF cos_data = NoRow THEN st
            ELSE [st EXCEPT !.current_cos_usage =
                     [c \in DOMAIN @ \cup {cos_data.cos_name} |->
                         IF c = cos_data.cos_name THEN cos_data.count ELSE @[c]]]
    ELSE st

RECURSIVE ParseLines(_, _, _)
ParseLines(st, lines, report_date) ==
    IF lines = <<>> THEN st
    ELSE ParseLines(ParseLine(st, Head(lines), report_date), Tail(lines), report_date)

\* ZimbraReportParser.parse_report(report_text, report_date)
parse_report(report_text, report_date) ==
    IF \A i \in DOMAIN report_text : report_text[i].lead = "blank" THEN <<>>
    ELSE LET st == ParseLines([results |-> <<>>, current_domain |-> NoCurrentDomain,
                               current_cos_usage |-> EmptyMap],
                              report_text, report_date)
         IN IF st.current_domain # NoCurrentDomain /\ st.current_cos_usage # EmptyMap
            THEN Append(st.results, DomainRecord(st, report_date))
            ELSE st.results

ParseReport ==
    /\ ~text_call.called
    /\ text_call.op = "parse_report"
    /\ text_call' = [called |-> TRUE, op |-> "parse_report", input |-> text_call.input,
                     report_date |-> text_call.report_date,
                     result |-> parse_report(text_call.input, text_call.report_date)]
    /\ UNCHANGED <<storeVars, invoiceVars, hwVars, detVars, retryVars>>

----------------------------------------------------------------------------
\* Initial states

HighwaterRow(d, billable) ==
    [year |-> Period.year, month |-> Period.month, domain_id |-> d, cos_id |-> 1,
     highwater_count |-> d + 2, billable |-> billable, calculated_at |-> 0]

\* two assigned domains, the second one active or not
DomainRows(act) ==
    [d \in DomainIds |->
        [domain_name |-> IF d = 1 THEN <<"a">> ELSE <<"A", "b">>,
         customer_id |-> d, active |-> IF d = 1 THEN TRUE ELSE act]]

CosMappingRow(cos_name, active) ==
    [cos_name |-> cos_name, qbo_item_id |-> "I1", unit_price |-> 4, quota_gb |-> 50,
     active |-> active]

InvoiceIdle ==
    /\ invoice_history = {}
    /\ qbo_invoices = <<>>
    /\ pc = [w \in Workers |-> "idle"]
    /\ mode = [w \in Workers |-> "single"]
    /\ queue = [w \in Workers |-> <<>>]
    /\ session_ok = [w \in Workers |-> TRUE]
    /\ cur = [w \in Workers |-> NoCall]
    /\ results = [w \in Workers |-> EmptyResults]
    /\ log = [w \in Workers |-> <<>>]
    /\ runs = 0
    /\ failures = 0
    /\ db_errors = 0

HwIdle ==
    /\ usage_data = {}
    /\ cos_discovery = EmptyMap
    /\ parsed_reports = <<>>
    /\ highwater_data = EmptyMap
    /\ hw_pc = "collect"
    /\ hw_runs = 0
    /\ hw_log = <<>>

DetIdle ==
    /\ domain_history = <<>>
    /\ new_domains = NotCalled
    /\ new_cos = NotCalled
    /\ mappings_made = 0
    /\ changes = NotCalled
    /\ change_log = <<>>
    /\ map_result = None

RetryIdle ==
    /\ r_pc = "idle"
    /\ r_attempt = 0
    /\ r_calls = 0
    /\ r_errors = <<>>
    /\ r_delay = 0
    /\ r_sleeps = <<>>
    /\ r_raised = NoError

TextIdle == text_call = NotCalled

\* Invoice runs: domain 1 (customer 1) is active with a billable highwater row;
\* domain 2 (customer 2) is active or not, with no highwater row, a billable one or
\* a non-billable one (its name excluded); the CoS mapping row exists or not
Init ==
    /\ \E act \in BOOLEAN : domains = DomainRows(act)
    /\ \E hw \in {"none", "billable", "excluded"} :
         /\ monthly_highwater =
               {HighwaterRow(1, TRUE)} \cup
               (IF hw = "none" THEN {} ELSE {HighwaterRow(2, hw = "billable")})
         /\ exclusions =
               IF hw = "excluded"
               THEN {[exclusion_type |-> "domain", pattern |-> <<"?", "B">>,
                      active |-> TRUE]}
               ELSE {}
    /\ \E mapped \in BOOLEAN :
         cos_mappings = IF mapped THEN (1 :> CosMappingRow(<<"b">>, TRUE)) ELSE EmptyMap
    /\ InvoiceIdle /\ HwIdle /\ DetIdle /\ RetryIdle /\ TextIdle

Next ==
    \/ \E w \in Workers, c \in CallerIds : StartSingle(w, c)
    \/ \E w \in Workers : StartBatch(w)
    \/ \E w \in Workers : GenerateInvoiceForCustomer(w)
    \/ \E w \in Workers : CreateInvoiceAttempt(w)
    \/ \E w \in Workers : RecordInvoiceHistory(w)

Spec == Init /\ [][Next]_vars

\* Report processing: both domains assigned, CoS "b" mapped and CoS "Ba" not, no
\* exclusion pattern or all of them
InitHighwater ==
    /\ domains = DomainRows(TRUE)
    /\ cos_mappings = (1 :> CosMappingRow(<<"b">>, TRUE))
    /\ monthly_highwater = {}
    /\ exclusions \in ExclusionTables
    /\ InvoiceIdle /\ HwIdle /\ DetIdle /\ RetryIdle /\ TextIdle

NextHighwater ==
    \/ \E record \in Records : AppendReport(record)
    \/ CalculateMonthlyHighwater
    \/ StoreUsageData
    \/ CalculateAndStoreHighwater

SpecHighwater == InitHighwater /\ [][NextHighwater]_vars

\* Change detection: no Domain row or one inactive row, no CoS mapping or one
\* inactive row, any set of the exclusion rows
InitDetect ==
    /\ domains \in {EmptyMap,
                    (1 :> [domain_name |-> <<"a">>, customer_id |-> 1, active |-> FALSE])}
    /\ cos_mappings \in {EmptyMap, (1 :> CosMappingRow(<<"b">>, FALSE))}
    /\ monthly_highwater = {}
    /\ exclusions \in SUBSET ExclusionRows
    /\ InvoiceIdle /\ HwIdle /\ DetIdle /\ RetryIdle /\ TextIdle

NextDetect ==
    \/ \E ds \in SUBSET DomainNames : FindNewDomains(ds)
    \/ \E cs \in SUBSET CosNames : FindNewCos(cs)
    \/ \E n \in DomainNames, c \in DOMAIN customers : AssignDomainToCustomer(n, c)
    \/ \E n \in CosNames : CreateCosMapping(n)

SpecDetect == InitDetect /\ [][NextDetect]_vars

\* the highwater rows of earlier periods: domain 1 with one billable row or none,
\* domain 2 with one non-billable row or none
HistoryPeriods == {[year |-> Period.year, month |-> Period.month - 1],
                   [year |-> Period.year, month |-> Period.month]}

PastRow(d, p, billable) ==
    [year |-> p.year, month |-> p.month, domain_id |-> d, cos_id |-> 1,
     highwater_count |-> 1, billable |-> billable, calculated_at |-> 0]

HighwaterHistories ==
    {{}} \cup {{PastRow(1, p, TRUE)} : p \in HistoryPeriods}
         \cup {{PastRow(2, p, FALSE)} : p \in HistoryPeriods}
         \cup {{PastRow(1, p, TRUE), PastRow(2, p, FALSE)} : p \in HistoryPeriods}

\* Reconciliation: one Domain row or two (the second inactive), highwater rows
\* of the stored domains and mappings only, no CoS mapping or
\* one active mapping (of a valid or of an inactive item), the exclusion rows or none
InitReconcile ==
    /\ domains \in {DomainRows(FALSE),
                    (1 :> [domain_name |-> <<"a">>, customer_id |-> 1, active |-> TRUE])}
    /\ cos_mappings \in {EmptyMap, (1 :> CosMappingRow(<<"b">>, TRUE)),
                         (1 :> [CosMappingRow(<<"b">>, TRUE) EXCEPT !.qbo_item_id = "I2"])}
    /\ monthly_highwater \in HighwaterHistories
    /\ \A hw \in monthly_highwater : /\ hw.domain_id \in DOMAIN domains
                                     /\ hw.cos_id \in DOMAIN cos_mappings
    /\ exclusions \in {{}, ExclusionRows}
    /\ InvoiceIdle /\ HwIdle /\ DetIdle /\ RetryIdle /\ TextIdle

NextReconcile ==
    \/ \E current_data \in Observations, p \in DetectRuns :
          DetectAllChanges(current_data, p)
    \/ \E n \in DomainNames, c \in DOMAIN customers : MapDomainToCustomer(n, c)
    \/ \E n \in CosNames : MapCosToQboItem(n)
    \/ \E m \in DOMAIN cos_mappings : DeactivateObsoleteCos(m)
    \/ ReactivateReappearing

SpecReconcile == InitReconcile /\ [][NextReconcile]_vars

InitRetry ==
    /\ domains = DomainRows(TRUE)
    /\ cos_mappings = (1 :> CosMappingRow(<<"b">>, TRUE))
    /\ monthly_highwater = {}
    /\ exclusions = {}
    /\ InvoiceIdle /\ HwIdle /\ DetIdle /\ RetryIdle /\ TextIdle

NextRetry ==
    \/ CallOperation
    \/ OperationAttempt
    \/ BackoffSleep

SpecRetry == InitRetry /\ [][NextRetry]_vars

\* Text functions: one call, of either function, on any input of the model
InitText ==
    /\ domains = DomainRows(TRUE)
    /\ cos_mappings = (1 :> CosMappingRow(<<"b">>, TRUE))
    /\ monthly_highwater = {}
    /\ exclusions = {}
    /\ InvoiceIdle /\ HwIdle /\ DetIdle /\ RetryIdle
    /\ text_call \in
          {[called |-> FALSE, op |-> "escape", input |-> value] : value \in QueryValues}
          \cup {[called |-> FALSE, op |-> "parse_report", input |-> report_text,
                 report_date |-> report_date] :
                    report_text \in ReportTexts, report_date \in ReportDays}

NextText ==
    \/ EscapeQueryString
    \/ ParseReport

SpecText == InitText /\ [][NextText]_vars

----------------------------------------------------------------------------
\* One billing run after another (src/main.py, run_monthly_billing): the reports
\* are processed, the reconciliation goes through the changes, the invoices of
\* the period are generated; all of it by one process

\* the records the reports of the runs hold: the assigned domain with the mapped
\* CoS (one account, then two), a domain with no Domain row, a CoS with no mapping
BillingRecords ==
    {[domain |-> <<"a">>, cos_usage |-> [c \in {<<"b">>} |-> 1], report_date |-> 1],
     [domain |-> <<"a">>, cos_usage |-> [c \in {<<"b">>} |-> 2], report_date |-> 2],
     [domain |-> <<"A", "b">>, cos_usage |-> [c \in {<<"b">>} |-> 1], report_date |-> 1],
     [domain |-> <<"a">>, cos_usage |-> [c \in {<<"B", "a">>} |-> 1], report_date |-> 1]}

\* run_monthly_billing(year, month) is called with a QBO client configured
BillingPass == [year |-> Period.year, month |-> Period.month, qbo_client |-> TRUE]

\* step 2 of the run with report files fetched: process_reports, after its parsing
BillingCalculate ==
    /\ parsed_reports # <<>>
    /\ CalculateMonthlyHighwater

\* process_reports, its last call: calculate_and_store_highwater, once in a run
BillingHighwater ==
    /\ hw_pc = "stored"
    /\ CalculateAndStoreHighwater

\* step 3 of the run: run_reconciliation(highwater_data, ...)
BillingReconciliation ==
    /\ hw_pc = "done"
    /\ runs < hw_runs
    /\ ~changes.called
    /\ DetectAllChanges(extract_current_data(DOMAIN highwater_data), BillingPass)

\* the reconciliation maps a new domain of the pass to the customer the user chose
BillingMapDomain(domain_name, customer_id) ==
    /\ changes.called
    /\ ~changes.finished
    /\ domain_name \in changes.bundle.new_domains
    /\ get_domain_by_name(domain_name) = {}
    /\ MapDomainToCustomer(domain_name, customer_id)

\* step 4 of the run: generate_invoices -> generate_all_invoices(year, month)
BillingInvoices ==
    /\ hw_pc = "done"
    /\ runs < hw_runs
    /\ changes.called
    /\ changes.finished
    /\ StartBatch("w1")

\* the run is over and run_monthly_billing is called again for the period, with
\* the reports fetched by then
StartMonthlyBilling ==
    /\ hw_pc = "done"
    /\ runs = hw_runs
    /\ pc["w1"] = "idle"
    /\ hw_runs < MaxHwRuns
    /\ hw_pc' = "collect"
    /\ parsed_reports' = <<>>
    /\ highwater_data' = EmptyMap
    /\ changes' = NotCalled
    /\ UNCHANGED <<storeVars, invoiceVars, hw_runs, hw_log, new_domains, new_cos,
                   mappings_made, change_log, map_result, retryVars, text_call>>

\* Billing runs: domain 'a' assigned to customer 1, CoS 'b' mapped, no highwater
\* row, no exclusion pattern
InitBilling ==
    /\ domains = (1 :> [domain_name |-> <<"a">>, customer_id |-> 1, active |-> TRUE])
    /\ cos_mappings = (1 :> CosMappingRow(<<"b">>, TRUE))
    /\ monthly_highwater = {}
    /\ exclusions = {}
    /\ InvoiceIdle /\ HwIdle /\ DetIdle /\ RetryIdle /\ TextIdle

NextBilling ==
    \/ \E record \in BillingRecords : AppendReport(record)
    \/ BillingCalculate
    \/ StoreUsageData
    \/ BillingHighwater
    \/ BillingReconciliation
    \/ \E n \in DomainNames, c \in DOMAIN customers : BillingMapDomain(n, c)
    \/ \E n \in CosNames : MapCosToQboItem(n)
    \/ \E m \in DOMAIN cos_mappings : DeactivateObsoleteCos(m)
    \/ ReactivateReappearing
    \/ BillingInvoices
    \/ GenerateInvoiceForCustomer("w1")
    \/ CreateInvoiceAttempt("w1")
    \/ RecordInvoiceHistory("w1")
    \/ StartMonthlyBilling
    \/ LoadDefaultExclusions

SpecBilling == InitBilling /\ [][NextBilling]_vars

----------------------------------------------------------------------------
\* Claims on the invoice generator

RecordsOf(c) ==
    {h \in invoice_history : /\ h.customer_id = c
                             /\ h.billing_year = Period.year
                             /\ h.billing_month = Period.month}

\* C1: when a caller's invocation for a customer and period has created and
\* recorded invoice X, the caller's next invocation for the same customer and
\* period returns X without calling the create-invoice API, and the customer has at
\* most one InvoiceRecord for the period.
C1_SecondCallReturnsFirstInvoice ==
    /\ \A w \in Workers : \A i \in DOMAIN log[w] :
         (/\ i + 1 \in DOMAIN log[w]
          /\ log[w][i].customer = log[w][i + 1].customer
          /\ log[w][i].result.kind = "invoice"
          /\ log[w][i].api_calls > 0)
         => /\ log[w][i + 1].result = log[w][i].result
            /\ log[w][i + 1].api_calls = 0
    /\ \A c \in DOMAIN customers : Cardinality(RecordsOf(c)) <= 1

C1_Witness ==
    \E w \in Workers : \E i \in DOMAIN log[w] :
        /\ i + 1 \in DOMAIN log[w]
        /\ log[w][i].customer = log[w][i + 1].customer
        /\ log[w][i].result.kind = "invoice"
        /\ log[w][i].api_calls > 0
        /\ log[w][i + 1].result = log[w][i].result
        /\ Cardinality(RecordsOf(log[w][i].customer)) = 1

\* C2: at most one invoice is ever saved in the external billing system for a
\* customer and billing period, and one invocation (with the retries of
\* create_invoice) saves at most one.
C2_AtMostOneExternalInvoice ==
    /\ \A c \in DOMAIN customers :
         Cardinality(ExternalFor(c, Period.year, Period.month)) <= 1
    /\ \A w \in Workers : pc[w] \in {"create", "record"} => cur[w].saved <= 1

\* C3: the store never holds two InvoiceRecords with one idempotency key, and a
\* worker whose insert failed on the uniqueness constraint ends by returning the
\* existing invoice, not with an error.
C3_RaceLoserReturnsExisting ==
    /\ \A h1, h2 \in invoice_history :
         h1.idempotency_key = h2.idempotency_key => h1 = h2
    /\ \A e \in Entries : e.conflict => e.result.kind = "invoice"

\* C4: an invocation that starts when an external invoice of its customer and
\* period is orphaned (created, history write failed) saves no further invoice.
C4_OrphanDetectedOnNextCall ==
    \A e \in Entries : e.orphans # {} => e.saved = 0

\* C5: in a batch a customer fails only by its own processing (its own external
\* call or its own history write), never because an earlier customer failed.
C5_FailureLeavesLaterCustomersAlone ==
    \A e \in Entries : e.result = Raised => e.api_calls > 0

\* C6: an invocation for a customer with no billable highwater row in the period
\* returns None, raises nothing, calls no create-invoice API and leaves no
\* InvoiceRecord for the customer.
C6_NoUsageNoInvoice ==
    \A e \in Entries :
        (e.customer \in DOMAIN customers /\ e.marks = 0)
        => /\ e.result = None
           /\ e.api_calls = 0
           /\ RecordsOf(e.customer) = {}

C6_Witness ==
    \E e \in Entries :
        /\ e.customer \in DOMAIN customers
        /\ e.marks = 0
        /\ e.result = None

----------------------------------------------------------------------------
\* Claims on the highwater aggregation and its persistence

\* the (entity, service-class) pairs that occur in a list of records
PairsOf(reports) ==
    UNION {{<<reports[i].domain, c>> : c \in DOMAIN reports[i].cos_usage} :
              i \in {j \in DOMAIN reports : reports[j].domain # NoDomain}}

\* all counts a list of records reports for one pair
CountsOf(reports, k) ==
    {reports[i].cos_usage[k[2]] :
        i \in {j \in DOMAIN reports : /\ reports[j].domain = k[1]
                                      /\ k[2] \in DOMAIN reports[j].cos_usage}}

Permuted(reports, p) == [i \in DOMAIN reports |-> reports[p[i]]]

\* C7: for the list of records the highwater was calculated from, and for every
\* permutation of it, calculate_monthly_highwater gives each pair that occurs a
\* count equal to the maximum of the counts reported for the pair.
C7_HighwaterIsMaximum ==
    hw_pc # "collect" =>
        /\ \A k \in PairsOf(parsed_reports) :
             /\ k \in DOMAIN highwater_data
             /\ highwater_data[k].count = MaxOf(CountsOf(parsed_reports, k))
        /\ \A p \in Permutations(DOMAIN parsed_reports) :
             LET r == calculate_monthly_highwater(Permuted(parsed_reports, p))
             IN \A k \in PairsOf(parsed_reports) :
                  /\ k \in DOMAIN r
                  /\ r[k].count = MaxOf(CountsOf(parsed_reports, k))

\* C8: every run of calculate_and_store_highwater over the same usage data leaves
\* the rows the first run left (same counts and billable flags), one row for each
\* (year, month, domain, cos) of the usage data and never two rows of one mark.
C8_RerunLeavesSameRows ==
    /\ \A i \in DOMAIN hw_log : hw_log[i] = hw_log[1]
    /\ \A r1, r2 \in monthly_highwater :
         SameMark(r1, r2.year, r2.month, <<r2.domain_id, r2.cos_id>>) => r1 = r2
    /\ hw_runs > 0 =>
         \A k \in {<<u.domain_id, u.cos_id>> : u \in usage_data} :
            Cardinality({r \in monthly_highwater :
                            SameMark(r, Period.year, Period.month, k)}) = 1

C8_Witness ==
    /\ Len(hw_log) >= 2
    /\ hw_log[1] # {}
    /\ hw_log[Len(hw_log)] = hw_log[1]

----------------------------------------------------------------------------
\* Claims on the change detector

\* a case-insensitive glob match, stated by the cuts of the name that the pattern's
\* characters cover: '*' covers any run, every other character exactly one
GlobMatchesCI(name, pat) ==
    \E cut \in [0..Len(pat) -> 0..Len(name)] :
        /\ cut[0] = 0
        /\ cut[Len(pat)] = Len(name)
        /\ \A i \in 1..Len(pat) :
             \/ pat[i] = "*" /\ cut[i - 1] <= cut[i]
             \/ /\ pat[i] # "*"
                /\ cut[i] = cut[i - 1] + 1
                /\ \/ pat[i] = "?"
                   \/ LowerChar(pat[i]) = LowerChar(name[cut[i]])

MatchesActivePattern(name, type) ==
    \E e \in exclusions : /\ e.exclusion_type = type
                          /\ e.active
                          /\ GlobMatchesCI(name, e.pattern)

\* C9: an observed domain name that matches an active domain-type exclusion pattern
\* is not in the result of find_new_domains, and an observed CoS name that matches
\* an active cos-type pattern is not in the result of find_new_cos.
C9_ExcludedNeverNew ==
    /\ new_domains.called =>
         \A n \in new_domains.current :
            MatchesActivePattern(n, "domain") => n \notin new_domains.result
    /\ new_cos.called =>
         \A n \in new_cos.current :
            MatchesActivePattern(n, "cos") => n \notin new_cos.result

C9_Witness ==
    /\ new_domains.called
    /\ \E n \in new_domains.current :
         /\ MatchesActivePattern(n, "domain")
         /\ get_domain_by_name(n) = {}
         /\ n \notin new_domains.result
    /\ new_cos.called
    /\ \E n \in new_cos.current :
         /\ MatchesActivePattern(n, "cos")
         /\ get_cos_mapping(n) = {}
         /\ n \notin new_cos.result

----------------------------------------------------------------------------
\* Claims on the retry wrapper

NonRetryableClasses == {"validation", "auth", "not_found", "unclassified"}

Tenths(seconds) == seconds * 10

\* C11: a failure classified as rate-limit is retried while attempts are left,
\* and the sleep before each such retry lasts at least retry_after seconds
\* (60 when the server gave none).
C11_RateLimitWaitsRetryAfter ==
    /\ \A i \in DOMAIN r_sleeps :
           r_errors[i].classified.class = "rate_limit"
           => r_sleeps[i] >= Tenths(default_retry_after)
    /\ \A i \in DOMAIN r_errors :
           (r_errors[i].classified.class = "rate_limit" /\ i <= max_retries)
           => ~(r_pc = "raised" /\ i = Len(r_errors))

\* C12: one call invokes the wrapped operation at most max_retries times, and a
\* call that raised a retryable error did so after its max_retries-th failure.
C12_AtMostConfiguredAttempts ==
    /\ r_calls <= max_retries
    /\ (r_pc = "raised" /\ is_retryable(r_raised)) => Len(r_errors) = max_retries

\* the classes in the order of their checks, each with its markers
ClassOrder ==
    << <<"rate_limit", {"429", "rate limit", "too many requests"}>>,
       <<"auth", {"401", "403", "unauthorized", "forbidden"}>>,
       <<"validation", {"400", "validation", "invalid"}>>,
       <<"not_found", {"404", "not found"}>>,
       <<"server", {"500", "502", "503", "504"}>>,
       <<"network", {"connection", "timeout", "network", "unreachable"}>> >>

FirstClassInOrder(text) ==
    LET hits == {i \in DOMAIN ClassOrder : ClassOrder[i][2] \cap text # {}}
    IN IF hits = {} THEN "unclassified"
       ELSE ClassOrder[CHOOSE i \in hits : \A j \in hits : i <= j][1]

RetryableClasses == {"rate_limit", "server", "network"}

ClassifiedInOrder(text) ==
    LET err == classify_qbo_error(text, "get_all_customers")
    IN /\ err.class = FirstClassInOrder(text)
       /\ is_retryable(err) <=> err.class \in RetryableClasses

\* every message with at most two markers
TwoMarkerTexts == {{a, b} : a \in Markers, b \in Markers} \cup {{}}

AllTwoMarkerTextsInOrder == \A text \in TwoMarkerTexts : ClassifiedInOrder(text)

\* C13: classify_qbo_error gives every upstream failure the class of the first
\* marker group, in the order rate-limit, authentication, validation, not-found,
\* server, network, that its message contains, unclassified when it contains
\* none; is_retryable holds exactly for rate-limit, server and network.
C13_ClassifiedByFirstMarker ==
    /\ AllTwoMarkerTextsInOrder
    /\ \A i \in DOMAIN r_errors :
           /\ r_errors[i].raised = classify_qbo_error(r_errors[i].upstream,
                                                      "get_all_customers")
           /\ ClassifiedInOrder(r_errors[i].upstream)

C13_Witness ==
    \E i \in DOMAIN r_errors :
        /\ r_errors[i].upstream = {"400", "503"}
        /\ r_errors[i].raised.class = "validation"
        /\ r_pc = "raised"

----------------------------------------------------------------------------
\* Claims on reconciliation

\* C14: in the bundle of detect_all_changes needs_attention is true exactly when
\* one of new_domains, new_cos, reappearing_domains, obsolete_cos,
\* invalid_qbo_items is non-empty; missing_domains has no part in it.
C14_NeedsAttentionIffFiveLists ==
    changes.called =>
        (changes.bundle.needs_attention
         <=> ~(/\ changes.bundle.new_domains = {}
               /\ changes.bundle.new_cos = {}
               /\ changes.bundle.reappearing_domains = {}
               /\ changes.bundle.obsolete_cos = {}
               /\ changes.bundle.invalid_qbo_items = {}))

C14_Witness ==
    /\ changes.called
    /\ changes.bundle.missing_domains # {}
    /\ ~changes.bundle.needs_attention

\* the CoS names whose mapping was made by map_cos_to_qbo_item and has not been
\* deactivated since
StillMapped ==
    {cos_mappings[change_log[i].entity_id].cos_name :
        i \in {x \in DOMAIN change_log :
                  /\ change_log[x].change_type = "cos_mapping"
                  /\ \A y \in DOMAIN change_log :
                        (y > x /\ change_log[y].change_type = "cos_mapping_deactivated")
                        => change_log[y].entity_id # change_log[x].entity_id}}

\* what a detection pass over the observed data reports as new CoS now
NewCosNow(current_data) ==
    detect_all_changes(current_data.domains, current_data.cos_names,
                       Period.year, Period.month, TRUE).new_cos

----------------------------------------------------------------------------
\* Claims on the billable flag of the highwater marks

\* C16: after calculate_and_store_highwater every mark of the period is
\* non-billable exactly when its domain name matches an active domain pattern or
\* its CoS name matches an active cos pattern; with the active domain pattern '*'
\* every mark is non-billable.
C16_BillableIffNotExcluded ==
    hw_runs > 0 =>
        /\ \A r \in monthly_highwater :
              ~r.billable
              <=> \/ MatchesActivePattern(domains[r.domain_id].domain_name, "domain")
                  \/ MatchesActivePattern(cos_mappings[r.cos_id].cos_name, "cos")
        /\ (\E x \in exclusions : /\ x.exclusion_type = "domain"
                                  /\ x.pattern = <<"*">> /\ x.active)
           => \A r \in monthly_highwater : ~r.billable

C16_Witness ==
    /\ hw_runs > 0
    /\ [exclusion_type |-> "domain", pattern |-> <<"*">>, active |-> TRUE] \in exclusions
    /\ Cardinality(monthly_highwater) >= 2
    /\ \A r \in monthly_highwater : ~r.billable

----------------------------------------------------------------------------
\* Claims on invoice prices

\* C17: every line of every invoice created in QuickBooks carries the unit price
\* its item has in QuickBooks, and its amount is that price times the quantity;
\* neither the price cached in the CoS mapping nor any other value is used.
C17_LinesPricedFromItem ==
    \A i \in DOMAIN qbo_invoices : \A l \in qbo_invoices[i].Line :
        /\ l.ItemRef \in DOMAIN qbo_items
        /\ l.UnitPrice = qbo_items[l.ItemRef].UnitPrice
        /\ l.Amount = qbo_items[l.ItemRef].UnitPrice * l.Qty

----------------------------------------------------------------------------
\* Claims on missing domains and on mapping decisions

\* C18: missing_domains holds exactly the names of the domains that have a
\* billable highwater row in the period before the pass's (December of the year
\* before for January, the month before otherwise) and are not observed now.
C18_MissingAreBillableLastPeriod ==
    changes.called =>
        LET py == IF changes.month = 1 THEN changes.year - 1 ELSE changes.year
            pm == IF changes.month = 1 THEN 12 ELSE changes.month - 1
            billable_before ==
                {domains[d].domain_name :
                    d \in {x \in DOMAIN domains :
                              \E hw \in monthly_highwater :
                                 /\ hw.domain_id = x /\ hw.billable
                                 /\ hw.year = py /\ hw.month = pm}}
        IN changes.bundle.missing_domains = billable_before \ changes.domains

\* the owner a domain name has in the store, 0 when it has no row
OwnerOf(name) ==
    IF \E d \in DOMAIN domains : domains[d].domain_name = name
    THEN domains[CHOOSE d \in DOMAIN domains : domains[d].domain_name = name].customer_id
    ELSE 0

\* C19: a call map_domain_to_customer(name, customer) leaves the domain owned by
\* the customer, appends exactly one DomainHistory row for it with the owners
\* before and after ('assigned' when it had none, 'moved' when it had another
\* one), and appends exactly one ChangeLog row with user_decision set.
C19_AssignmentRecordedOnce ==
    [][(map_result'.kind = "domain" /\ mappings_made' = mappings_made + 1) =>
          LET name == map_result'.name
              customer == map_result'.customer_id
              before == OwnerOf(name)
              d == CHOOSE x \in DOMAIN domains' : domains'[x].domain_name = name
          IN /\ Cardinality({x \in DOMAIN domains' : domains'[x].domain_name = name}) = 1
             /\ domains'[d].customer_id = customer
             /\ Len(domain_history') = Len(domain_history) + 1
             /\ SubSeq(domain_history', 1, Len(domain_history)) = domain_history
             /\ LET h == domain_history'[Len(domain_history')]
                IN /\ h.domain_id = d
                   /\ h.old_customer_id = before
                   /\ h.new_customer_id = customer
                   /\ before = 0 => h.event_type = "assigned"
                   /\ before \notin {0, customer} => h.event_type = "moved"
                   /\ h.event_type \in {"assigned", "moved"}
             /\ Len(change_log') = Len(change_log) + 1
             /\ SubSeq(change_log', 1, Len(change_log)) = change_log
             /\ change_log'[Len(change_log')].user_decision
             /\ change_log'[Len(change_log')].entity_type = "domain"
             /\ change_log'[Len(change_log')].entity_id = d
      ]_vars

\* a new domain was assigned to a customer and then moved to another one
C19_Witness ==
    /\ map_result.kind = "domain"
    /\ Len(domain_history) = 2
    /\ domain_history[1].event_type = "assigned"
    /\ domain_history[1].old_customer_id = 0
    /\ domain_history[2].event_type = "moved"
    /\ domain_history[2].domain_id = domain_history[1].domain_id
    /\ domain_history[2].old_customer_id # domain_history[2].new_customer_id
    /\ Len(change_log) = 2

\* C20: a call of map_cos_to_qbo_item for a name that new_cos reported succeeds,
\* and leaves exactly one mapping row of that name, an active one, whether or not
\* a row of the name existed before.
C20_MappingCreatedOrUpdated ==
    map_result.kind \in {"cos", "raised"} =>
        /\ map_result.kind = "cos"
        /\ Cardinality({m \in DOMAIN cos_mappings :
                           cos_mappings[m].cos_name = map_result.name}) = 1
        /\ \A m \in DOMAIN cos_mappings :
              cos_mappings[m].cos_name = map_result.name => cos_mappings[m].active

----------------------------------------------------------------------------
\* Claims on the error raised by a wrapped operation

\* C21: when a call under retry_with_backoff ends with an error, the error raised
\* to the caller has the class of the upstream failure of the last attempt, names
\* the operation, and carries that upstream failure as its original error
\* (directly, or through the error the wrapped method raised).
C21_RaisedErrorIsUpstreamClass ==
    r_pc = "raised" =>
        LET last == r_errors[Len(r_errors)]
        IN /\ r_raised.class = ClassOf(last.upstream)
           /\ r_raised.operation = "get_all_customers"
           /\ \/ r_raised.original_error = last.upstream
              \/ /\ r_raised.original_error = last.raised.text
                 /\ last.raised.original_error = last.upstream

\* the retry decision survives the second classification of one upstream failure
SameRetryDecision(text) ==
    LET first == HandleError("get_all_customers", text)
        second == classify_qbo_error(first.text, "get_all_customers")
    IN is_retryable(second) <=> is_retryable(first)

\* C28: for every upstream failure the error _handle_error raises is, when the
\* wrapper classifies it again from its message, retryable exactly when the first
\* classification was; so a failed attempt is followed by a retry when its
\* upstream failure is transient and attempts are left, and by no retry when it is
\* permanent.
C28_ReclassificationKeepsDecision ==
    /\ \A text \in TwoMarkerTexts : SameRetryDecision(text)
    /\ \A i \in DOMAIN r_errors :
          LET first == classify_qbo_error(r_errors[i].upstream, "get_all_customers")
              retried == Len(r_sleeps) >= i \/ (r_pc = "sleep" /\ i = Len(r_errors))
          IN /\ is_retryable(r_errors[i].classified) <=> is_retryable(first)
             /\ (is_retryable(first) /\ i <= max_retries) => retried
             /\ ~is_retryable(first) => (~retried /\ r_pc = "raised")

\* a transient failure was retried, and the authentication failure after it, whose
\* second classification has no class, was raised at once
C28_Witness ==
    /\ Len(r_errors) = 2
    /\ r_errors[1].upstream = {"timeout"}
    /\ Len(r_sleeps) = 1
    /\ r_errors[2].raised.class = "auth"
    /\ r_errors[2].classified.class = "unclassified"
    /\ r_pc = "raised"

----------------------------------------------------------------------------
\* Claims on the text functions

\* the positions of a string that hold a single quote outside a doubled pair:
\* the last quote of a run of quotes of odd length
LoneQuotes(s) ==
    {i \in DOMAIN s :
        /\ s[i] = "'"
        /\ (i = Len(s) \/ s[i + 1] # "'")
        /\ \E j \in 1..i :
              /\ \A k \in j..i : s[k] = "'"
              /\ (j = 1 \/ s[j - 1] # "'")
              /\ (i - j + 1) % 2 = 1}

\* C22: the result of _escape_qbo_query_string has at most 255 characters, every
\* '%' and '_' in it is preceded by a backslash, and every single quote in it
\* belongs to a doubled pair.
C22_EscapedWithinLimit ==
    (text_call.called /\ text_call.op = "escape") =>
        LET r == text_call.result
        IN /\ Len(r) <= max_length
           /\ \A i \in DOMAIN r : r[i] \in {"%", "_"} => (i > 1 /\ r[i - 1] = "\\")
           /\ LoneQuotes(r) = {}

\* a report in the format of the claim: blocks of one bare domain-name line and
\* one or more indented 'cos-name: count' lines, blank lines between the blocks
IsBlockReport(report_text) ==
    /\ report_text # <<>>
    /\ report_text[1].lead = "bare"
    /\ \A i \in DOMAIN report_text :
          /\ report_text[i].lead \in {"bare", "indented", "blank"}
          /\ report_text[i].lead = "bare" =>
                (i < Len(report_text) /\ report_text[i + 1].lead = "indented")
          /\ (report_text[i].lead = "blank" /\ i < Len(report_text)) =>
                report_text[i + 1].lead # "indented"

\* the lines of the block that starts at line i
BlockLines(report_text, i) ==
    {j \in DOMAIN report_text :
        /\ j > i
        /\ report_text[j].lead = "indented"
        /\ \A k \in (i + 1)..j : report_text[k].lead # "bare"}

\* the record of the block that starts at line i: the last count of each CoS
BlockRecord(report_text, i, report_date) ==
    LET ls == BlockLines(report_text, i)
        last(c) == CHOOSE j \in ls : /\ report_text[j].name = c
                                     /\ \A k \in ls : report_text[k].name = c => k <= j
    IN [domain |-> report_text[i].name,
        cos_usage |-> [c \in {report_text[j].name : j \in ls} |-> report_text[last(c)].count],
        report_date |-> report_date]

\* one record per block, in the order of the blocks
RECURSIVE BlockRecords(_, _, _)
BlockRecords(report_text, i, report_date) ==
    IF i > Len(report_text) THEN <<>>
    ELSE (IF report_text[i].lead = "bare"
          THEN <<BlockRecord(report_text, i, report_date)>> ELSE <<>>)
         \o BlockRecords(report_text, i + 1, report_date)

\* C23: for a report written as blocks of a bare domain-name line followed by
\* indented 'cos-name: count' lines, parse_report returns one record per block, in
\* input order, each with the domain name, the CoS to count mapping of its lines
\* and the given report date.
C23_BlockReportParsed ==
    (text_call.called /\ text_call.op = "parse_report"
     /\ IsBlockReport(text_call.input))
    => text_call.result = BlockRecords(text_call.input, 1, text_call.report_date)

\* the same statement for the format the parser reads ('| CoS Usage for <name>:'
\* headers and '- <name>: <count>' lines) holds: see HeaderReportParsed
AsHeaderReport(report_text) ==
    [i \in DOMAIN report_text |->
        [report_text[i] EXCEPT !.lead = IF @ = "bare" THEN "header"
                                        ELSE IF @ = "indented" THEN "dash" ELSE @]]

HeaderReportParsed ==
    \A report_text \in ReportTexts :
        IsBlockReport(report_text) =>
            \A report_date \in ReportDays :
                parse_report(AsHeaderReport(report_text), report_date)
                = BlockRecords(report_text, 1, report_date)

----------------------------------------------------------------------------
\* Claims on the life cycle of the domains

\* the stored rows of a domain name
RowsOf(name) == {d \in DOMAIN domains : domains[d].domain_name = name}

\* C26: when a reconciliation pass that reported a domain in missing_domains is
\* over, the domain is marked inactive in the store (so that a later pass that
\* observes it reports it as reappearing).
C26_MissingDomainDeactivated ==
    (changes.called /\ changes.finished) =>
        \A n \in changes.bundle.missing_domains \ changes.domains :
            \A d \in RowsOf(n) : ~domains[d].active

\* C27: when a reconciliation pass that reported a domain in reappearing_domains
\* has run to its end, the domain is active and a DomainHistory row of type
\* 'reappeared' has been written for it.
C27_ReappearedRecorded ==
    (changes.called /\ changes.finished) =>
        \A n \in changes.bundle.reappearing_domains :
            \A d \in RowsOf(n) :
                /\ domains[d].active
                /\ \E i \in DOMAIN domain_history :
                      /\ domain_history[i].domain_id = d
                      /\ domain_history[i].event_type = "reappeared"

----------------------------------------------------------------------------
\* Claims on the batch result

\* the customers of one list of a batch result
ListedIn(list) == {list[i].customer_id : i \in DOMAIN list}

----------------------------------------------------------------------------
\* Claims on exclusions at invoice time

\* C24: the line items generate_invoice_for_customer builds for an invoice hold
\* no highwater mark whose domain or CoS matches an exclusion pattern that is
\* active when the lines are built, whenever the pattern was added.
C24_NoLineForExcludedNow ==
    \A w \in Workers : pc[w] \in {"create", "record"} => cur[w].excluded = {}

\* C25: when generate_invoice_for_customer finds an invoice recorded under the
\* key of the customer and the period, and the billable highwater rows would now
\* give other lines than the recorded invoice holds, the call ends with an error.
C25_MismatchRaised ==
    \A e \in Entries : e.mismatch => e.result = Raised

\* the invoices of the period saved for the owner of a stored domain that hold a
\* line for the domain and the CoS
InvoicesWithLine(d, domain_name, cos_name) ==
    {i \in 1..Len(qbo_invoices) :
        /\ qbo_invoices[i].CustomerRef = customers[domains[d].customer_id].qbo_customer_id
        /\ qbo_invoices[i].TxnDate = InvoiceDate(Period.year, Period.month)
        /\ \E l \in qbo_invoices[i].Line : l.Description = <<domain_name, cos_name>>}

\* the marks of the run's reports whose domain or CoS the detection pass of the run
\* reported as new and that have a Domain row and an active mapping by now
MappedInRun ==
    {k \in DOMAIN highwater_data :
        /\ k[1] \in changes.bundle.new_domains \/ k[2] \in changes.bundle.new_cos
        /\ get_domain_by_name(k[1]) # {}
        /\ get_cos_mapping(k[2]) # {}
        /\ highwater_data[k].count > 0
        /\ ~is_domain_excluded(k[1])
        /\ ~is_cos_excluded(k[2])}

\* C29: once a billing run has generated its invoices with no failure (and no
\* invoice of the period was recorded before), every mark of the run's reports
\* whose domain or CoS was unmapped at ingestion and mapped by the run's
\* reconciliation has a line on an invoice of the owning customer.
C29_MappedInRunIsBilled ==
    (/\ changes.called
     /\ changes.finished
     /\ hw_pc = "done"
     /\ runs = hw_runs
     /\ pc["w1"] = "idle"
     /\ results["w1"].failed = <<>>
     /\ \A e \in Entries : e.had_record = {})
    => \A k \in MappedInRun :
          \A d \in get_domain_by_name(k[1]) : InvoicesWithLine(d, k[1], k[2]) # {}

====
